---- MODULE Spec2Model ----
(***************************************************************************)
(* A model of passphrase/passphrase.py: class Passphrase, its validated    *)
(* configuration, its entropy queries and its three generation operations. *)
(*                                                                         *)
(* Strings are sequences of one-character strings, so that lower(),        *)
(* upper(), str(), slicing and joining are computed, not assumed.          *)
(* Entropy is kept in thousandths of a bit (a float of the program is an   *)
(* integer number of millibits here).                                      *)
(***************************************************************************)
EXTENDS Integers, Sequences, FiniteSets, TLC

(***************************************************************************)
(* Bounds of the model.                                                    *)
(***************************************************************************)
\* the numbers offered to randnum_min / randnum_max are -1 .. MaxNum
MaxNum == 1
\* the numbers offered to amount_w are -1 .. MaxWords
MaxWords == 2
\* the numbers offered to amount_n are -1 .. MaxNumbers
MaxNumbers == 1
\* the entropy targets offered are -1 .. MaxBits bits, in steps of half a bit
MaxBits == 3
\* the numbers offered to passwordlen are -1 .. MaxLen
MaxLen == 1
\* the random hex strings offered start at the digits 0 .. MaxHexStart and
\* go on in steps of 0 .. MaxHexStep
MaxHexStart == 1
MaxHexStep == 1

(***************************************************************************)
(* Python values.                                                          *)
(***************************************************************************)
\* an attribute that is None, and one that holds x
None == <<>>
Some(x) == <<x>>
Val(o) == o[1]

\* an argument with its Python type; i is its value when it is a number
PyInt(i) == [t |-> "int", i |-> i]
PyFloat(m) == [t |-> "float", i |-> m]
PyStr == [t |-> "str", i |-> 0]
PyNone == [t |-> "NoneType", i |-> 0]

\* an element of a result: a string or an integer
StrElem(s) == [t |-> "str", s |-> s, i |-> 0]
IntElem(i) == [t |-> "int", s |-> <<>>, i |-> i]

\* the outcome of a call that raised, and of one that returned v
Raised == <<>>
Returned(v) == <<v>>

Max(a, b) == IF a >= b THEN a ELSE b

\* the smallest integer >= a / b, for a >= 0 and b > 0 (math.ceil)
Ceil(a, b) == (a + b - 1) \div b

(***************************************************************************)
(* str.lower, str.upper, str() of an integer, over the letters a, b.       *)
(***************************************************************************)
LowerChar(c) == CASE c = "A" -> "a" [] c = "B" -> "b" [] OTHER -> c
UpperChar(c) == CASE c = "a" -> "A" [] c = "b" -> "B" [] OTHER -> c
lower(s) == [k \in 1..Len(s) |-> LowerChar(s[k])]
upper(s) == [k \in 1..Len(s) |-> UpperChar(s[k])]

Digit(d) == CASE d = 0 -> "0" [] d = 1 -> "1" [] d = 2 -> "2" [] d = 3 -> "3"
              [] d = 4 -> "4" [] d = 5 -> "5" [] d = 6 -> "6" [] d = 7 -> "7"
              [] d = 8 -> "8" [] d = 9 -> "9" [] d = 10 -> "a" [] d = 11 -> "b"
              [] d = 12 -> "c" [] d = 13 -> "d" [] d = 14 -> "e" [] d = 15 -> "f"

RECURSIVE IntStr(_)
IntStr(i) == IF i < 0 THEN <<"-">> \o IntStr(-i)
             ELSE IF i < 10 THEN <<Digit(i)>>
             ELSE IntStr(i \div 10) \o <<Digit(i % 10)>>

\* str(element)
str(e) == IF e.t = "int" THEN IntStr(e.i) ELSE e.s

(***************************************************************************)
(* passphrase/settings.py, passphrase/wordlist.py: the default numeric     *)
(* range and the built-in wordlist with its precomputed entropy, scaled    *)
(* down (the built-in list is four words, two bits a word).                *)
(***************************************************************************)
MIN_NUM == 1
MAX_NUM == 2

EFF_LONG_WORDLIST == << <<"a", "b">>, <<"b", "a">>, <<"a", "a">>, <<"b", "b">> >>
EFF_LONG_WORDLIST_ENTROPY == 2000

(***************************************************************************)
(* passphrase/calc.py (EntropyMath).  A result is Raised or Returned(v).   *)
(***************************************************************************)
\* log2(n) in millibits, rounded down, for the sizes the model reaches
log2(n) == CASE n = 1 -> 0 [] n = 2 -> 1000 [] n = 3 -> 1584 [] n = 4 -> 2000
             [] n = 5 -> 2321 [] n = 6 -> 2584 [] n = 7 -> 2807 [] n = 8 -> 3000

calc_entropy_bits(lst) ==
    IF Len(lst) = 0 THEN Raised ELSE Returned(log2(Len(lst)))

calc_entropy_bits_nrange(minimum, maximum) ==
    IF maximum < minimum THEN Raised ELSE Returned(log2(maximum - minimum + 1))

calc_words_amount_needed(entropybits, entropy_w, entropy_n, amount) ==
    IF entropy_w <= 0 THEN Raised
    ELSE Returned(Ceil(Max(0, entropybits - amount * entropy_n), entropy_w))

calc_passphrase_entropy(amount_words, entropy_w, entropy_n, amount_numbers) ==
    IF amount_words = 0 /\ amount_numbers = 0 THEN Returned(0)
    ELSE Returned(amount_words * entropy_w + amount_numbers * entropy_n)

(***************************************************************************)
(* Wordlist files.  A file is [ok, lines]: ok is Aux.isfile_notempty, a    *)
(* line is the sequence of its whitespace-separated columns.               *)
(***************************************************************************)
RECURSIVE JoinColumns(_)
JoinColumns(line) ==
    IF Len(line) = 0 THEN <<>>
    ELSE IF Len(line) = 1 THEN line[1]
    ELSE line[1] \o <<" ">> \o JoinColumns(Tail(line))

isfile_notempty(file) == file.ok

\* [word.strip() for word in open(inputfile)]
read_words_from_wordfile(file) ==
    Returned([k \in 1..Len(file.lines) |-> JoinColumns(file.lines[k])])

\* [word.split()[1] for word in open(inputfile)]: IndexError on a short line
read_words_from_diceware(file) ==
    IF \E k \in 1..Len(file.lines) : Len(file.lines[k]) < 2 THEN Raised
    ELSE Returned([k \in 1..Len(file.lines) |-> file.lines[k][2]])

\* the files of the model: none, one line, one column, two columns, and a
\* two-column file with a one-column line
Files ==
    { [ok |-> FALSE, lines |-> <<>>],
      [ok |-> TRUE, lines |-> << << <<"b">> >> >>],
      [ok |-> TRUE, lines |-> << << <<"a", "b">> >>, << <<"B", "a">> >> >>],
      [ok |-> TRUE, lines |-> << << <<"1">>, <<"A", "b">> >>,
                                 << <<"2">>, <<"b">> >>,
                                 << <<"3">>, <<"a">> >> >>],
      [ok |-> TRUE, lines |-> << << <<"1">>, <<"a">> >>, << <<"b">> >> >>] }

\* the values offered to the wordlist setter: lists, a tuple, a string
WordlistArgs ==
    { [t |-> "list", l |-> <<>>],
      [t |-> "list", l |-> << <<"a", "b">> >>],
      [t |-> "tuple", l |-> << <<"A", "b">>, <<"b", "a">> >>],
      [t |-> "list", l |-> << <<"a">>, <<"B">>, <<"a", "b">> >>],
      [t |-> "list", l |-> EFF_LONG_WORDLIST],
      [t |-> "str", l |-> <<>>] }

IntArgs(hi) == {PyInt(i) : i \in -1..hi} \cup {PyStr}

\* ints are whole bits, floats come in half bits
EntropyArgs ==
    {PyInt(1000 * i) : i \in -1..MaxBits}
        \cup {PyFloat(500 * i) : i \in -1..(2 * MaxBits)} \cup {PyStr}

(***************************************************************************)
(* The state of a Passphrase object, and the last call made on it.         *)
(***************************************************************************)
VARIABLES entropy_bits_req, randnum_min, randnum_max, amount_w, amount_n,
          passwordlen, separator, wordlist, wordlist_entropy_bits,
          password_use_lowercase, password_use_uppercase,
          password_use_digits, password_use_punctuation, last_result, call

flags == <<password_use_lowercase, password_use_uppercase,
           password_use_digits, password_use_punctuation>>
config == <<entropy_bits_req, randnum_min, randnum_max, amount_w, amount_n,
            passwordlen, separator, wordlist, wordlist_entropy_bits, flags>>
vars == <<config, last_result, call>>

Call(op, raised, arg, ret) == [op |-> op, raised |-> raised, arg |-> arg, ret |-> ret]

\* the call raises: nothing of the object is assigned
Raise(op) ==
    /\ call' = Call(op, TRUE, PyNone, 0)
    /\ UNCHANGED <<config, last_result>>

\* the call raises, and the type of its argument is kept
RaiseOn(op, arg) ==
    /\ call' = Call(op, TRUE, [t |-> arg.t, i |-> 0], 0)
    /\ UNCHANGED <<config, last_result>>

\* not x, for an attribute holding None or a sequence
Falsy(o) == o = None \/ Len(Val(o)) = 0

(***************************************************************************)
(* __init__: the defaults, then no wordlist, the internal one or a file.   *)
(***************************************************************************)
Defaults ==
    /\ randnum_min = MIN_NUM
    /\ randnum_max = MAX_NUM
    /\ separator = <<" ">>
    /\ password_use_lowercase = TRUE
    /\ password_use_uppercase = TRUE
    /\ password_use_digits = TRUE
    /\ password_use_punctuation = TRUE
    /\ passwordlen = None
    /\ amount_n = None
    /\ amount_w = None
    /\ entropy_bits_req = None
    /\ last_result = None
    /\ call = Call("__init__", FALSE, PyNone, 0)

ReadWords(file, is_diceware) ==
    IF is_diceware THEN read_words_from_diceware(file)
    ELSE read_words_from_wordfile(file)

Init ==
    /\ Defaults
    /\ \/ wordlist = None /\ wordlist_entropy_bits = None
       \/ /\ wordlist = Some(EFF_LONG_WORDLIST)
          /\ wordlist_entropy_bits = Some(EFF_LONG_WORDLIST_ENTROPY)
       \/ \E file \in Files, is_diceware \in BOOLEAN :
            /\ isfile_notempty(file)
            /\ ReadWords(file, is_diceware) # Raised
            /\ wordlist = Some(Val(ReadWords(file, is_diceware)))
            /\ wordlist_entropy_bits = None

(***************************************************************************)
(* The validated setters.                                                  *)
(***************************************************************************)
SetEntropyBitsReq(entropybits) ==
    IF entropybits.t \notin {"int", "float"} \/ entropybits.i < 0
    THEN Raise("entropy_bits_req")
    ELSE /\ entropy_bits_req' = Some(entropybits.i)
         /\ call' = Call("entropy_bits_req", FALSE, PyNone, 0)
         /\ UNCHANGED <<randnum_min, randnum_max, amount_w, amount_n, passwordlen,
                        separator, wordlist, wordlist_entropy_bits, flags, last_result>>

SetRandnumMin(randnum) ==
    IF randnum.t # "int" \/ randnum.i < 0
    THEN Raise("randnum_min")
    ELSE /\ randnum_min' = randnum.i
         /\ call' = Call("randnum_min", FALSE, PyNone, 0)
         /\ UNCHANGED <<entropy_bits_req, randnum_max, amount_w, amount_n, passwordlen,
                        separator, wordlist, wordlist_entropy_bits, flags, last_result>>

SetRandnumMax(randnum) ==
    IF randnum.t # "int" \/ randnum.i < 0
    THEN Raise("randnum_max")
    ELSE /\ randnum_max' = randnum.i
         /\ call' = Call("randnum_max", FALSE, PyNone, 0)
         /\ UNCHANGED <<entropy_bits_req, randnum_min, amount_w, amount_n, passwordlen,
                        separator, wordlist, wordlist_entropy_bits, flags, last_result>>

SetAmountN(amount) ==
    IF amount.t # "int" \/ amount.i < 0
    THEN Raise("amount_n")
    ELSE /\ amount_n' = Some(amount.i)
         /\ call' = Call("amount_n", FALSE, PyNone, 0)
         /\ UNCHANGED <<entropy_bits_req, randnum_min, randnum_max, amount_w, passwordlen,
                        separator, wordlist, wordlist_entropy_bits, flags, last_result>>

\* a variant that keeps the cached entropy
SetWordlistKeepingCache(words) ==
    IF words.t \notin {"list", "tuple"}
    THEN Raise("wordlist")
    ELSE /\ wordlist' = Some(words.l)
         /\ call' = Call("wordlist", FALSE, PyNone, 0)
         /\ UNCHANGED <<entropy_bits_req, randnum_min, randnum_max, amount_w, amount_n,
                        passwordlen, separator, wordlist_entropy_bits, flags, last_result>>

SetWordlist(words) ==
    IF words.t \notin {"list", "tuple"}
    THEN Raise("wordlist")
    ELSE /\ wordlist' = Some(words.l)
         /\ wordlist_entropy_bits' = None
         /\ call' = Call("wordlist", FALSE, PyNone, 0)
         /\ UNCHANGED <<entropy_bits_req, randnum_min, randnum_max, amount_w, amount_n,
                        passwordlen, separator, flags, last_result>>

(***************************************************************************)
(* load_internal_wordlist, import_words_from_file.                         *)
(***************************************************************************)
LoadInternalWordlist ==
    /\ wordlist' = Some(EFF_LONG_WORDLIST)
    /\ wordlist_entropy_bits' = Some(EFF_LONG_WORDLIST_ENTROPY)
    /\ call' = Call("load_internal_wordlist", FALSE, PyNone, 0)
    /\ UNCHANGED <<entropy_bits_req, randnum_min, randnum_max, amount_w, amount_n,
                   passwordlen, separator, flags, last_result>>

\* the cache is cleared before the file is read: a read that raises leaves
\* it cleared and the wordlist as it was
ImportWordsFromFile(file, is_diceware) ==
    IF ~isfile_notempty(file)
    THEN Raise("import_words_from_file")
    ELSE /\ wordlist_entropy_bits' = None
         /\ IF ReadWords(file, is_diceware) = Raised
            THEN /\ call' = Call("import_words_from_file", TRUE, PyNone, 0)
                 /\ UNCHANGED wordlist
            ELSE /\ wordlist' = Some(Val(ReadWords(file, is_diceware)))
                 /\ call' = Call("import_words_from_file", FALSE, PyNone, 0)
         /\ UNCHANGED <<entropy_bits_req, randnum_min, randnum_max, amount_w, amount_n,
                        passwordlen, separator, flags, last_result>>

(***************************************************************************)
(* entropy_bits and the two passphrase queries.                            *)
(***************************************************************************)
StrElems(words) == [k \in 1..Len(words) |-> StrElem(words[k])]

\* a pair of numbers is a range, anything else a set of symbols
entropy_bits(lst) ==
    IF /\ Len(lst) = 2
       /\ lst[1].t \in {"int", "float"}
       /\ lst[2].t \in {"int", "float"}
    THEN calc_entropy_bits_nrange(lst[1].i, lst[2].i)
    ELSE calc_entropy_bits(lst)

\* self._wordlist_entropy_bits if self._wordlist_entropy_bits
\*     else self.entropy_bits(self.wordlist)
EntropyW ==
    IF wordlist_entropy_bits # None /\ Val(wordlist_entropy_bits) # 0
    THEN wordlist_entropy_bits
    ELSE entropy_bits(StrElems(Val(wordlist)))

EntropyN == entropy_bits(<<IntElem(randnum_min), IntElem(randnum_max)>>)

\* a variant that leaves the numbers out of the budget
words_amount_needed_without_numbers ==
    IF entropy_bits_req = None \/ amount_n = None \/ Falsy(wordlist) THEN Raised
    ELSE IF EntropyN = Raised \/ EntropyW = Raised THEN Raised
    ELSE calc_words_amount_needed(Val(entropy_bits_req), Val(EntropyW),
                                  Val(EntropyN), 0)

words_amount_needed ==
    IF entropy_bits_req = None \/ amount_n = None \/ Falsy(wordlist) THEN Raised
    ELSE IF EntropyN = Raised \/ EntropyW = Raised THEN Raised
    ELSE calc_words_amount_needed(Val(entropy_bits_req), Val(EntropyW),
                                  Val(EntropyN), Val(amount_n))

\* generated_passphrase_entropy() of the object with amount_w holding words
passphrase_entropy_with(words) ==
    IF words = None \/ amount_n = None \/ Falsy(wordlist) THEN Raised
    ELSE IF Val(amount_n) = 0 /\ Val(words) = 0 THEN Returned(0)
    ELSE IF EntropyN = Raised \/ EntropyW = Raised THEN Raised
    ELSE calc_passphrase_entropy(Val(words), Val(EntropyW),
                                 Val(EntropyN), Val(amount_n))

generated_passphrase_entropy == passphrase_entropy_with(amount_w)

Query(op, result) ==
    /\ call' = IF result = Raised THEN Call(op, TRUE, PyNone, 0)
               ELSE Call(op, FALSE, PyNone, Val(result))
    /\ UNCHANGED <<config, last_result>>

WordsAmountNeeded == Query("words_amount_needed", words_amount_needed)

GeneratedPassphraseEntropy ==
    Query("generated_passphrase_entropy", generated_passphrase_entropy)

(***************************************************************************)
(* Spec: an object from its construction on, under its configuration       *)
(* operations and the words_amount_needed query.                           *)
(***************************************************************************)
Next ==
    \/ \E entropybits \in EntropyArgs : SetEntropyBitsReq(entropybits)
    \/ \E randnum \in IntArgs(MaxNum) : SetRandnumMin(randnum)
    \/ \E randnum \in IntArgs(MaxNum) : SetRandnumMax(randnum)
    \/ \E amount \in IntArgs(MaxNumbers) : SetAmountN(amount)
    \/ \E words \in WordlistArgs : SetWordlist(words)
    \/ LoadInternalWordlist
    \/ \E file \in Files, is_diceware \in BOOLEAN : ImportWordsFromFile(file, is_diceware)
    \/ WordsAmountNeeded

Spec == Init /\ [][Next]_vars

(***************************************************************************)
(* passphrase/secrets.py (SecureRandom): each draw is the set of values    *)
(* it can return; an empty set is a draw that raises.                      *)
(***************************************************************************)
randchoice(seq) == {seq[k] : k \in 1..Len(seq)}
randbetween(lower_, upper_) == lower_..upper_

\* the lowercase hex encoding of nbytes random bytes: two characters a byte
randhex(nbytes) ==
    { [k \in 1..(2 * nbytes) |-> Digit((start + step * k) % 16)] :
        start \in 0..MaxHexStart, step \in 0..MaxHexStep }

(***************************************************************************)
(* passphrase/aux.py (UppercaseDistributor), on a list of lowercase words. *)
(***************************************************************************)
\* n, the number of words, all of them lowercase
lowercase_count(passphrase) == Len(passphrase)

make_all_uppercase(passphrase) ==
    [k \in 1..Len(passphrase) |-> upper(passphrase[k])]

\* exactly amount of the words are uppercased, whichever they are
make_chars_uppercase(passphrase, amount) ==
    { [k \in 1..Len(passphrase) |->
          IF k \in chosen THEN upper(passphrase[k]) ELSE passphrase[k]] :
        chosen \in {c \in SUBSET (1..Len(passphrase)) : Cardinality(c) = amount} }

(***************************************************************************)
(* generate(uppercase).                                                    *)
(***************************************************************************)
IntElems(numbers) == [k \in 1..Len(numbers) |-> IntElem(numbers[k])]

\* a variant that never converts a negative directive
EffectiveUppercaseUnconverted(uppercase, lowercase) == uppercase

\* a variant that also converts the directive -lowercase
EffectiveUppercaseInclusive(uppercase, lowercase) ==
    IF uppercase < 0 /\ lowercase >= (0 - uppercase)
    THEN lowercase + uppercase
    ELSE uppercase

\* if uppercase < 0 and lowercase > (0 - uppercase):
\*     uppercase = lowercase + uppercase
EffectiveUppercase(uppercase, lowercase) ==
    IF uppercase < 0 /\ lowercase > (0 - uppercase)
    THEN lowercase + uppercase
    ELSE uppercase

\* the lists the uppercase handling can leave
HandleUppercase(passphrase, uppercase) ==
    LET lowercase == lowercase_count(passphrase)
    IN  IF Len(passphrase) = 0 \/ uppercase.t = "NoneType" THEN {passphrase}
        ELSE LET effective == EffectiveUppercase(uppercase.i, lowercase)
             IN  IF effective = 0 \/ effective > lowercase
                 THEN {make_all_uppercase(passphrase)}
                 ELSE IF effective > 0
                 THEN make_chars_uppercase(passphrase, effective)
                 ELSE {passphrase}

\* for _ in range(0, self.amount_w): randchoice(self.wordlist).lower()
WordDraws ==
    { [k \in 1..Val(amount_w) |-> lower(Val(wordlist)[picks[k]])] :
        picks \in [1..Val(amount_w) -> 1..Len(Val(wordlist))] }

\* a variant that ignores randnum_min
NumberDrawsFromZero == [1..Val(amount_n) -> randbetween(0, randnum_max)]

\* for _ in range(0, self.amount_n): randbetween(randnum_min, randnum_max)
NumberDraws == [1..Val(amount_n) -> randbetween(randnum_min, randnum_max)]

Generate(uppercase) ==
    IF amount_n = None \/ amount_w = None \/ Falsy(wordlist)
    THEN RaiseOn("generate", uppercase)
    ELSE IF uppercase.t \notin {"NoneType", "int"}
    THEN RaiseOn("generate", uppercase)
    ELSE IF NumberDraws = {}
    THEN RaiseOn("generate", uppercase)
    ELSE \E passphrase \in WordDraws, numbers \in NumberDraws :
           \E cased \in HandleUppercase(passphrase, uppercase) :
             /\ last_result' = Some(StrElems(cased) \o IntElems(numbers))
             /\ call' = Call("generate", FALSE, uppercase, 0)
             /\ UNCHANGED config

(***************************************************************************)
(* generate_password().  Each of the four character classes is cut to one   *)
(* character.                                                              *)
(***************************************************************************)
ascii_lowercase == <<"a">>
ascii_uppercase == <<"A">>
digits == <<"0">>
punctuation == <<"!">>

get_password_characters ==
    (IF password_use_lowercase THEN ascii_lowercase ELSE <<>>)
        \o (IF password_use_uppercase THEN ascii_uppercase ELSE <<>>)
        \o (IF password_use_digits THEN digits ELSE <<>>)
        \o (IF password_use_punctuation THEN punctuation ELSE <<>>)

GeneratePassword ==
    LET characterset == get_password_characters
    IN  IF passwordlen = None \/ Len(characterset) = 0
        THEN Raise("generate_password")
        ELSE \E picks \in [1..Val(passwordlen) -> 1..Len(characterset)] :
               /\ last_result' =
                    Some([k \in 1..Val(passwordlen) |-> StrElem(<<characterset[picks[k]]>>)])
               /\ call' = Call("generate_password", FALSE, PyNone, 0)
               /\ UNCHANGED config

(***************************************************************************)
(* generate_uuid4().                                                       *)
(***************************************************************************)
\* s[from:to] and s[from:] of Python
Slice(s, from, to) == SubSeq(s, from + 1, IF to < Len(s) THEN to ELSE Len(s))
SliceFrom(s, from) == SubSeq(s, from + 1, Len(s))

uuid4_parts(hexstr, variant) ==
    << Slice(hexstr, 0, 8),
       Slice(hexstr, 8, 12),
       <<"4">> \o Slice(hexstr, 12, 15),
       <<Digit(variant)>> \o Slice(hexstr, 15, 18),
       SliceFrom(hexstr, 18) >>

\* a variant that also sets the separator to the dash UUIDs are written with
GenerateUuid4Dashed ==
    \E hexstr \in randhex(30), variant \in randbetween(8, 11) :
        /\ last_result' = Some(StrElems(uuid4_parts(hexstr, variant)))
        /\ separator' = <<"-">>
        /\ call' = Call("generate_uuid4", FALSE, PyNone, 0)
        /\ UNCHANGED <<entropy_bits_req, randnum_min, randnum_max, amount_w, amount_n,
                       passwordlen, wordlist, wordlist_entropy_bits, flags>>

GenerateUuid4 ==
    \E hexstr \in randhex(30), variant \in randbetween(8, 11) :
        /\ last_result' = Some(StrElems(uuid4_parts(hexstr, variant)))
        /\ call' = Call("generate_uuid4", FALSE, PyNone, 0)
        /\ UNCHANGED config

(***************************************************************************)
(* __str__().                                                              *)
(***************************************************************************)
RECURSIVE FormatAll(_, _)
\* ''.join('{}{}'.format(w, self.separator) for w in map(str, self.last_result))
FormatAll(elems, sep) ==
    IF Len(elems) = 0 THEN <<>>
    ELSE str(elems[1]) \o sep \o FormatAll(Tail(elems), sep)

\* s[:stop] for stop < 0
DropLast(s, count) == SubSeq(s, 1, Len(s) - count)

\* a variant that removes one character, whatever the separator's length
StrDroppingOne ==
    IF Falsy(last_result) THEN <<>>
    ELSE LET separator_len == Len(separator)
             joined == FormatAll(Val(last_result), separator)
         IN  IF separator_len > 0 THEN DropLast(joined, 1) ELSE joined

Str ==
    IF Falsy(last_result) THEN <<>>
    ELSE LET separator_len == Len(separator)
             joined == FormatAll(Val(last_result), separator)
         IN  IF separator_len > 0 THEN DropLast(joined, separator_len) ELSE joined

(***************************************************************************)
(* SpecGen: objects configured for passphrases through the setters, then   *)
(* used to generate and to query.  The initial states are configurations   *)
(* the setters reach from the constructor's defaults.                      *)
(***************************************************************************)
\* the wordlists assigned before generating: none, empty, one word, two words
GenerateWordlists ==
    { <<>>, << <<"a", "b">> >>, << <<"A", "b">>, <<"b", "a">> >> }

UppercaseArgs ==
    {PyNone, PyStr} \cup {PyInt(i) : i \in (0 - MaxWords - 1)..(MaxWords + 1)}

PasswordDefaults ==
    /\ passwordlen = None
    /\ password_use_lowercase = TRUE
    /\ password_use_uppercase = TRUE
    /\ password_use_digits = TRUE
    /\ password_use_punctuation = TRUE

InitGen ==
    /\ entropy_bits_req = None
    /\ separator = <<" ">>
    /\ PasswordDefaults
    /\ amount_w \in {None} \cup {Some(i) : i \in 0..MaxWords}
    /\ amount_n \in {None} \cup {Some(i) : i \in 0..MaxNumbers}
    /\ randnum_min \in 0..MaxNum
    /\ randnum_max \in 0..MaxNum
    /\ wordlist \in {None} \cup {Some(words) : words \in GenerateWordlists}
    /\ wordlist_entropy_bits = None
    /\ last_result = None
    /\ call = Call("__init__", FALSE, PyNone, 0)

NextGen ==
    \/ \E uppercase \in UppercaseArgs : Generate(uppercase)
    \/ GeneratedPassphraseEntropy

SpecGen == InitGen /\ [][NextGen]_vars

(***************************************************************************)
(* SpecOps: the three generation operations and __str__, on objects whose  *)
(* separator is set and that are configured either for passwords or for    *)
(* passphrases over a one-word wordlist and the default numeric range.     *)
(***************************************************************************)
Separators == { <<>>, <<" ">>, <<"-">>, <<",", " ">> }

InitOps ==
    /\ entropy_bits_req = None
    /\ separator \in Separators
    /\ randnum_min = MIN_NUM
    /\ randnum_max = MAX_NUM
    /\ wordlist_entropy_bits = None
    /\ last_result = None
    /\ call = Call("__init__", FALSE, PyNone, 0)
    /\ \/ /\ passwordlen \in {None} \cup {Some(i) : i \in 0..MaxLen}
          /\ password_use_lowercase \in BOOLEAN
          /\ password_use_uppercase \in BOOLEAN
          /\ password_use_digits \in BOOLEAN
          /\ password_use_punctuation \in BOOLEAN
          /\ amount_w = None
          /\ amount_n = None
          /\ wordlist = None
       \/ /\ PasswordDefaults
          /\ amount_w \in {Some(i) : i \in 0..MaxWords}
          /\ amount_n \in {Some(i) : i \in 0..MaxNumbers}
          /\ wordlist = Some(<< <<"A", "b">> >>)

NextOps ==
    \/ \E uppercase \in UppercaseArgs : Generate(uppercase)
    \/ GeneratePassword
    \/ GenerateUuid4

SpecOps == InitOps /\ [][NextOps]_vars

(***************************************************************************)
(* Claims about the configuration (checked under Spec).                    *)
(***************************************************************************)

\* C4: a call that fails leaves every configuration field, the cached
\* entropy per word included, and last_result as they were before it.
C4_FailedCallChangesNothing ==
    [][call'.raised => UNCHANGED <<config, last_result>>]_vars

\* C5: after construction and any sequence of assignments to randnum_min
\* and randnum_max, both are non-negative and randnum_min <= randnum_max.
C5_RangeOrdered ==
    randnum_min >= 0 /\ randnum_max >= 0 /\ randnum_min <= randnum_max

\* the entropy per word and per number the claims speak of: the cached
\* value or log2 of the wordlist's size, and log2 of the range's size
RefEntropyW ==
    IF wordlist_entropy_bits # None THEN Val(wordlist_entropy_bits)
    ELSE log2(Len(Val(wordlist)))
RefEntropyN == log2(randnum_max - randnum_min + 1)

QueryConfigured ==
    entropy_bits_req # None /\ amount_n # None /\ ~Falsy(wordlist)

\* w is the least non-negative integer with
\* w * entropy_w + amount_n * entropy_n >= entropy_bits_req
LeastWords(w) ==
    /\ w >= 0
    /\ w * RefEntropyW + Val(amount_n) * RefEntropyN >= Val(entropy_bits_req)
    /\ \A v \in 0..(w - 1) :
         v * RefEntropyW + Val(amount_n) * RefEntropyN < Val(entropy_bits_req)

\* C9 as stated: with the target, amount_n and a non-empty wordlist set,
\* words_amount_needed() returns the least such w, and amount_w = w makes
\* generated_passphrase_entropy() at least the target.
C9_ReturnsLeastWords ==
    (call.op = "words_amount_needed" /\ QueryConfigured) =>
        /\ ~call.raised
        /\ randnum_min <= randnum_max
        /\ LeastWords(call.ret)
        /\ passphrase_entropy_with(Some(call.ret)) # Raised
        /\ Val(passphrase_entropy_with(Some(call.ret))) >= Val(entropy_bits_req)

\* C9 amended: the same, provided the range is ordered and the entropy per
\* word is positive; otherwise, and only then, the configured query raises.
C9_ReturnsLeastWordsWhenComputable ==
    (call.op = "words_amount_needed" /\ QueryConfigured) =>
        IF randnum_min <= randnum_max /\ RefEntropyW > 0
        THEN /\ ~call.raised
             /\ LeastWords(call.ret)
             /\ passphrase_entropy_with(Some(call.ret)) # Raised
             /\ Val(passphrase_entropy_with(Some(call.ret))) >= Val(entropy_bits_req)
        ELSE call.raised

\* the query returned a word count above zero with numbers contributing
C9_Witness ==
    /\ call.op = "words_amount_needed"
    /\ ~call.raised
    /\ call.ret >= 2
    /\ Val(amount_n) * RefEntropyN > 0
    /\ Val(entropy_bits_req) > Val(amount_n) * RefEntropyN + RefEntropyW

\* C10: the cached entropy per word is set only while the wordlist is the
\* built-in one, and is then the built-in constant; after a wordlist is
\* assigned or imported it is unset, and the entropy per word used by the
\* queries is the one computed from the current wordlist.
C10_CacheOnlyForInternal ==
    /\ wordlist_entropy_bits # None =>
         /\ wordlist = Some(EFF_LONG_WORDLIST)
         /\ wordlist_entropy_bits = Some(EFF_LONG_WORDLIST_ENTROPY)
    /\ (call.op \in {"wordlist", "import_words_from_file"} /\ ~call.raised) =>
         /\ wordlist_entropy_bits = None
         /\ ~Falsy(wordlist) => EntropyW = Returned(log2(Len(Val(wordlist))))

\* a wordlist other than the built-in one was assigned, and the cache is unset
C10_Witness ==
    /\ call.op = "wordlist"
    /\ ~call.raised
    /\ ~Falsy(wordlist)
    /\ wordlist # Some(EFF_LONG_WORDLIST)
    /\ wordlist_entropy_bits = None

(***************************************************************************)
(* Claims about generation (checked under SpecGen and SpecOps).            *)
(***************************************************************************)
Generated == call.op = "generate" /\ ~call.raised

\* the words of a result, and how many of them are uppercase
WordsOf(result) == SelectSeq(result, LAMBDA e : e.t = "str")
NumbersOf(result) == SelectSeq(result, LAMBDA e : e.t = "int")
UpperCount(result) ==
    Cardinality({k \in 1..Len(WordsOf(result)) :
                    /\ WordsOf(result)[k].s = upper(WordsOf(result)[k].s)
                    /\ WordsOf(result)[k].s # lower(WordsOf(result)[k].s)})
LowerCount(result) ==
    Cardinality({k \in 1..Len(WordsOf(result)) :
                    WordsOf(result)[k].s = lower(WordsOf(result)[k].s)})

HexDigits == {Digit(d) : d \in 0..15}

\* C1: generate_uuid4() returns and stores five hex strings of lengths
\* 8, 4, 4, 4, 12 (32 characters), the third starting with 4 and the fourth
\* with one of 8, 9, a, b.
C1_Uuid4Shape ==
    (call.op = "generate_uuid4" /\ ~call.raised) =>
        LET parts == Val(last_result)
        IN  /\ Len(parts) = 5
            /\ \A k \in 1..5 : parts[k].t = "str"
            /\ \A k \in 1..5 : \A j \in 1..Len(parts[k].s) : parts[k].s[j] \in HexDigits
            /\ <<Len(parts[1].s), Len(parts[2].s), Len(parts[3].s),
                 Len(parts[4].s), Len(parts[5].s)>> = <<8, 4, 4, 4, 12>>
            /\ parts[3].s[1] = "4"
            /\ parts[4].s[1] \in {"8", "9", "a", "b"}

C6_GenerationKeepsConfig ==
    [][(call'.op \in {"generate", "generate_password", "generate_uuid4"}
            /\ ~call'.raised) => UNCHANGED config]_vars

\* a password of at least one character was generated
C6_Witness ==
    /\ call.op = "generate_password"
    /\ ~call.raised
    /\ Len(Val(last_result)) >= 1

\* C7: with amount_w and amount_n set, a non-empty wordlist, an ordered
\* range and a directive that is None or an integer, generate stores
\* amount_w words, each a wordlist member up to case, then amount_n integers
\* of the range; with both amounts 0 the result is empty and
\* generated_passphrase_entropy() is 0.0.
C7_GenerateShape ==
    (/\ call.op = "generate"
     /\ amount_w # None
     /\ amount_n # None
     /\ ~Falsy(wordlist)
     /\ randnum_min <= randnum_max
     /\ call.arg.t \in {"NoneType", "int"}) =>
        /\ ~call.raised
        /\ LET result == Val(last_result)
               w == Val(amount_w)
               n == Val(amount_n)
           IN  /\ Len(result) = w + n
               /\ \A k \in 1..w :
                    /\ result[k].t = "str"
                    /\ \E j \in 1..Len(Val(wordlist)) :
                         lower(result[k].s) = lower(Val(wordlist)[j])
               /\ \A k \in (w + 1)..(w + n) :
                    /\ result[k].t = "int"
                    /\ randnum_min <= result[k].i
                    /\ result[k].i <= randnum_max
               /\ (w = 0 /\ n = 0) =>
                    /\ result = <<>>
                    /\ generated_passphrase_entropy = Returned(0)

\* two words, one of them uppercased, and a number were generated
C7_Witness ==
    /\ Generated
    /\ Len(Val(last_result)) = 3
    /\ Val(last_result)[3].t = "int"
    /\ Val(last_result)[3].i = randnum_min
    /\ randnum_min > 0
    /\ UpperCount(Val(last_result)) = 1

RECURSIVE Joined(_, _)
\* the strings of elems with sep between each two of them
Joined(elems, sep) ==
    IF Len(elems) = 0 THEN <<>>
    ELSE IF Len(elems) = 1 THEN str(elems[1])
    ELSE str(elems[1]) \o sep \o Joined(Tail(elems), sep)

\* C8: str(object) is the strings of last_result's elements joined by the
\* separator, with none at the end, and is empty when last_result is empty
\* or None.
C8_StrJoins ==
    /\ Falsy(last_result) => Str = <<>>
    /\ ~Falsy(last_result) => Str = Joined(Val(last_result), separator)

\* a word and a number are joined by a separator of two characters
C8_Witness ==
    /\ Generated
    /\ Len(separator) = 2
    /\ Len(WordsOf(Val(last_result))) >= 1
    /\ Len(NumbersOf(Val(last_result))) >= 1
    /\ Len(Str) > 0

====
